---- MODULE Spec2Model ----
(***************************************************************************)
(* A model of update_publications.py: the INSPIRE-HEP fetch, the author    *)
(* and markup renderers, the marker splice and the orchestration of main.  *)
(* Python strings are TLA+ strings (TLC evaluates Len, \o and SubSeq on    *)
(* them); JSON objects are functions from keys, JSON lists are sequences,  *)
(* and the scalar JSON values that may be null, a string or a number are   *)
(* tagged records (JNull, JStr, JInt).                                     *)
(***************************************************************************)
EXTENDS Integers, Sequences, FiniteSets, TLC

(* ------------------------------------------------------------------ *)
(* Python built-ins used by the script                                 *)
(* ------------------------------------------------------------------ *)

JNull == [t |-> "null"]
JStr(s) == [t |-> "str", v |-> s]
JInt(n) == [t |-> "int", v |-> n]

\* bool(v) of a scalar JSON value
Truthy(v) ==
  CASE v.t = "null" -> FALSE
    [] v.t = "str" -> v.v # ""
    [] v.t = "int" -> v.v # 0

\* str(v), as an f-string renders the value
PyStr(v) ==
  CASE v.t = "null" -> "None"
    [] v.t = "str" -> v.v
    [] v.t = "int" -> ToString(v.v)

\* d.get(k, default)
Get(d, k, default) == IF k \in DOMAIN d THEN d[k] ELSE default

Min(a, b) == IF a <= b THEN a ELSE b

\* s.find(sub, from): the least index >= from (1-based) where sub occurs, 0 if none
Find(s, sub, from) ==
  LET at == {i \in from..(Len(s) - Len(sub) + 1) : SubSeq(s, i, i + Len(sub) - 1) = sub}
  IN IF at = {} THEN 0 ELSE CHOOSE i \in at : \A j \in at : i <= j

\* sub in s
Contains(s, sub) == Find(s, sub, 1) # 0

\* s[from:] with 1-based from
Suffix(s, from) == SubSeq(s, from, Len(s))

\* s.replace(old, new) for a non-empty old: every non-overlapping occurrence, left to right
RECURSIVE Replace(_, _, _)
Replace(s, old, new) ==
  LET i == Find(s, old, 1)
  IN IF i = 0 THEN s
     ELSE SubSeq(s, 1, i - 1) \o new \o Replace(Suffix(s, i + Len(old)), old, new)

\* the characters str.strip() removes that a string of this module holds as one
\* character: space, tab, line feed, vertical tab, form feed, carriage return
\* and the separators \x1c to \x1f (the last five written as the characters
\* themselves). Python also strips \x85, \xa0 and the other non-ASCII white
\* space, which a string here cannot hold as one character; no input below
\* holds them.
Whitespace == {" ", "\t", "\n", "", "\f", "\r", "", "", "", ""}

\* s.strip()
RECURSIVE LStrip(_)
LStrip(s) == IF s # "" /\ SubSeq(s, 1, 1) \in Whitespace THEN LStrip(Suffix(s, 2)) ELSE s

RECURSIVE RStrip(_)
RStrip(s) ==
  IF s # "" /\ SubSeq(s, Len(s), Len(s)) \in Whitespace
  THEN RStrip(SubSeq(s, 1, Len(s) - 1)) ELSE s

Strip(s) == LStrip(RStrip(s))

\* sep.join(names)
RECURSIVE Join(_, _)
Join(sep, names) ==
  IF names = <<>> THEN ""
  ELSE IF Len(names) = 1 THEN names[1]
  ELSE names[1] \o sep \o Join(sep, Tail(names))

\* names.insert(k, x) with 0-based k <= len(names)
Insert(names, k, x) == SubSeq(names, 1, k) \o <<x>> \o SubSeq(names, k + 1, Len(names))

(* ------------------------------------------------------------------ *)
(* Name formatter                                                      *)
(* ------------------------------------------------------------------ *)

MY_NAMES == {"Berean-Dutcher, Jonah", "Berean-Dutcher, J.", "Berean, Jonah", "Berean, J."}

format_author_short(full_name) ==
  IF Contains(full_name, ",")
  THEN LET c == Find(full_name, ",", 1)
           last == SubSeq(full_name, 1, c - 1)
           first == Strip(Suffix(full_name, c + 1))
           initial == IF first # "" THEN SubSeq(first, 1, 1) ELSE ""
       IN initial \o ". " \o Strip(last)
  ELSE full_name

is_me(full_name) ==
  LET name == Strip(full_name)
      last == IF Contains(name, ",")
              THEN Strip(SubSeq(name, 1, Find(name, ",", 1) - 1))
              ELSE name
  IN \/ name \in MY_NAMES
     \/ Contains(last, "Berean")

(* ------------------------------------------------------------------ *)
(* Author list renderers                                               *)
(* ------------------------------------------------------------------ *)

me_html == "<strong>J. Berean-Dutcher</strong>"

\* a.get("full_name", "") of every entry, in order
FullNames(authors) == [i \in 1..Len(authors) |-> Get(authors[i], "full_name", "")]

\* the loop of lines 82-87: the short forms of the entries is_me rejects
CoauthorsShort(authors) ==
  LET others == SelectSeq(FullNames(authors), LAMBDA fn : ~is_me(fn))
  IN [i \in 1..Len(others) |-> format_author_short(others[i])]

\* me_idx after the loop of lines 82-87: the 0-based index of the last entry
\* is_me accepts, -1 standing for None
MeIdx(authors) ==
  LET mine == {i \in 1..Len(authors) : is_me(FullNames(authors)[i])}
  IN IF mine = {} THEN -1 ELSE (CHOOSE i \in mine : \A j \in mine : j <= i) - 1

\* author_list_html putting the owner first in the truncated list, whatever
\* the owner's position
author_list_html_owner_first(authors) ==
  LET coauthors == CoauthorsShort(authors)
      fns == FullNames(authors)
      names == [i \in 1..Len(fns) |->
                  IF is_me(fns[i]) THEN me_html ELSE format_author_short(fns[i])]
      shown == Insert(SubSeq(coauthors, 1, 2), 0, me_html)
  IN IF Len(coauthors) <= 2
     THEN IF Len(names) <= 2
          THEN Join(" & ", names)
          ELSE Join(", ", SubSeq(names, 1, Len(names) - 1)) \o " & " \o names[Len(names)]
     ELSE Join(", ", shown) \o " et al."

author_list_html(authors) ==
  LET coauthors == CoauthorsShort(authors)
      me_idx == MeIdx(authors)
      fns == FullNames(authors)
      names == [i \in 1..Len(fns) |->
                  IF is_me(fns[i]) THEN me_html ELSE format_author_short(fns[i])]
      shown == IF me_idx # -1
               THEN Insert(SubSeq(coauthors, 1, 2), Min(me_idx, 2), me_html)
               ELSE Insert(SubSeq(coauthors, 1, 2), 0, me_html)
  IN IF Len(coauthors) <= 2
     THEN IF Len(names) <= 2
          THEN Join(" & ", names)
          ELSE Join(", ", SubSeq(names, 1, Len(names) - 1)) \o " & " \o names[Len(names)]
     ELSE Join(", ", shown) \o " et al."

\* None is JNull, a string result is JStr
author_list_latex(authors) ==
  LET others == SelectSeq(FullNames(authors), LAMBDA fn : ~is_me(fn))
      coauthors == [i \in 1..Len(others) |->
                      Replace(format_author_short(others[i]), " ", "~")]
  IN IF coauthors = <<>> THEN JNull
     ELSE IF Len(coauthors) <= 2 THEN JStr(Join(" \\& ", coauthors))
     ELSE JStr(Join(", ", SubSeq(coauthors, 1, 2)) \o " et al.")

(* ------------------------------------------------------------------ *)
(* Markup renderers                                                    *)
(* ------------------------------------------------------------------ *)

escape_html(s) == Replace(Replace(Replace(s, "&", "&amp;"), "<", "&lt;"), ">", "&gt;")

escape_latex(s) ==
  Replace(Replace(Replace(Replace(Replace(s,
    "&", "\\&"), "%", "\\%"), "#", "\\#"), "_", "\\_"), "~", "\\textasciitilde{}")

\* (url, display_text); (None, None) is <<JNull, JNull>>
paper_link(paper) ==
  IF Truthy(paper.arxiv)
  THEN <<JStr("https://arxiv.org/abs/" \o PyStr(paper.arxiv)),
         JStr("arXiv:" \o PyStr(paper.arxiv))>>
  ELSE IF Truthy(paper.doi)
  THEN <<JStr("https://doi.org/" \o PyStr(paper.doi)),
         JStr("doi:" \o PyStr(paper.doi))>>
  ELSE IF Truthy(paper.inspire_id)
  THEN <<JStr("https://inspirehep.net/literature/" \o PyStr(paper.inspire_id)),
         JStr("INSPIRE")>>
  ELSE <<JNull, JNull>>

\* the lines generate_html appends for one paper
HtmlCard(p) ==
  LET url == paper_link(p)[1]
      link_text == paper_link(p)[2]
      title_escaped == escape_html(p.title)
      authors_html == author_list_html(p.authors)
  IN <<"        <div class=\"card\">",
       "          <h3>" \o title_escaped \o "</h3>">>
     \o (IF Truthy(url)
         THEN <<"          <p><em><a href=\"" \o PyStr(url)
                \o "\" target=\"_blank\" rel=\"noreferrer\">"
                \o escape_html(PyStr(link_text)) \o "</a></em></p>">>
         ELSE <<>>)
     \o <<"          <p class=\"subtle\">" \o authors_html \o "</p>",
          "        </div>">>

RECURSIVE HtmlCards(_)
HtmlCards(papers) ==
  IF papers = <<>> THEN <<>> ELSE HtmlCard(Head(papers)) \o HtmlCards(Tail(papers))

generate_html(papers) ==
  Join("\n", <<"      <div class=\"grid\">">> \o HtmlCards(papers) \o <<"      </div>">>)

\* the item generate_latex appends for one paper, or the exception raised on
\* the way: escape_latex(journal) calls journal.replace, which a journal that
\* is truthy and not a string does not have
LatexItem(p) ==
  LET url == paper_link(p)[1]
      title_tex == escape_latex(p.title)
      coauthors == author_list_latex(p.authors)
      with_part == IF Truthy(coauthors) THEN " \\with{" \o PyStr(coauthors) \o "}" ELSE ""
      item == IF Truthy(url)
              THEN "\\item \\href{" \o PyStr(url) \o "}{\\textcolor{DodgerBlue4}{"
                   \o title_tex \o "}}" \o with_part
              ELSE "\\item " \o title_tex \o with_part
      journal == p.journal
      year == p.year
  IN IF Truthy(journal) /\ journal.t # "str"
     THEN [error |-> "AttributeError", item |-> ""]
     ELSE [error |-> "",
           item |-> item \o (IF Truthy(journal)
                             THEN " \\sep \\textit{" \o escape_latex(journal.v)
                                  \o "} \\sep " \o PyStr(year)
                             ELSE IF Truthy(year)
                             THEN " \\sep Preprint \\sep " \o PyStr(year)
                             ELSE "")]

\* lines.append(item), when the loop body produced the item r
LatexAppend(r, lines) ==
  IF r.error # "" THEN [error |-> r.error, lines |-> lines]
  ELSE [error |-> "", lines |-> Append(lines, r.item)]

\* the loop of generate_latex over the papers, from the lines so far: the lines
\* appended and the exception that ended the loop ("" when it ran to its end)
RECURSIVE LatexLoop(_, _)
LatexLoop(papers, sofar) ==
  IF papers = <<>> \/ sofar.error # "" THEN sofar
  ELSE LatexLoop(Tail(papers), LatexAppend(LatexItem(Head(papers)), sofar.lines))

\* lines.append(r"\end{itemize}") and the join, when the loop ran to its end
LatexEnd(r) ==
  IF r.error # "" THEN [error |-> r.error, text |-> ""]
  ELSE [error |-> "", text |-> Join("\n", Append(r.lines, "\\end{itemize}"))]

\* generate_latex: the fragment returned, or the exception raised
generate_latex(papers) ==
  LatexEnd(LatexLoop(papers, [error |-> "", lines |-> <<"\\begin{itemize}">>]))

(* ------------------------------------------------------------------ *)
(* Marker splice                                                       *)
(* ------------------------------------------------------------------ *)

\* pattern.sub(lambda m: repl, text): every non-overlapping match of
\* start_marker .*? end_marker (DOTALL), scanning left to right, becomes repl
RECURSIVE SubAll(_, _, _, _)
SubAll(text, start_marker, end_marker, repl) ==
  LET i == Find(text, start_marker, 1)
      j == IF i = 0 THEN 0 ELSE Find(text, end_marker, i + Len(start_marker))
  IN IF i = 0 \/ j = 0 THEN text
     ELSE SubSeq(text, 1, i - 1) \o repl
          \o SubAll(Suffix(text, j + Len(end_marker)), start_marker, end_marker, repl)

\* replace_between_markers inserting the content after each start marker and
\* keeping what was there
replace_accumulating(text, start_marker, end_marker, replacement) ==
  Replace(text, start_marker, start_marker \o "\n" \o replacement \o "\n")

\* replace_between_markers with pattern.sub(..., count=1)
replace_first_only(text, start_marker, end_marker, replacement) ==
  LET i == Find(text, start_marker, 1)
      j == IF i = 0 THEN 0 ELSE Find(text, end_marker, i + Len(start_marker))
  IN IF i = 0 \/ j = 0 THEN text
     ELSE SubSeq(text, 1, i - 1) \o start_marker \o "\n" \o replacement \o "\n"
          \o end_marker \o Suffix(text, j + Len(end_marker))

replace_between_markers(text, start_marker, end_marker, replacement) ==
  SubAll(text, start_marker, end_marker,
         start_marker \o "\n" \o replacement \o "\n" \o end_marker)

(* ------------------------------------------------------------------ *)
(* Record fetcher                                                      *)
(* ------------------------------------------------------------------ *)

\* "thesis" in doc_types
InList(x, list) == \E i \in 1..Len(list) : list[i] = x

\* FetchHit without the thesis `continue`
FetchHitKeepThesis(hit) ==
  LET meta == Get(hit, "metadata", <<>>)
      titles == Get(meta, "titles", <<(<<>>)>>)
      eprints == Get(meta, "arxiv_eprints", <<>>)
      pubs == Get(meta, "publication_info", <<>>)
      dois == Get(meta, "dois", <<>>)
      pub_info == IF pubs # <<>> THEN pubs[1] ELSE <<>>
      pub_year == Get(pub_info, "year", JNull)
      earliest == Get(meta, "earliest_date", "")
  IN IF titles = <<>> THEN [kind |-> "raise", error |-> "IndexError"]
     ELSE [kind |-> "paper",
           paper |-> [title |-> Get(titles[1], "title", "Untitled"),
                      authors |-> Get(meta, "authors", <<>>),
                      arxiv |-> IF eprints # <<>> THEN Get(eprints[1], "value", JNull)
                                ELSE JNull,
                      journal |-> Get(pub_info, "journal_title", JNull),
                      year |-> IF ~Truthy(pub_year)
                               THEN JStr(SubSeq(earliest, 1, Min(4, Len(earliest))))
                               ELSE pub_year,
                      doi |-> IF dois # <<>> THEN Get(dois[1], "value", JNull) ELSE JNull,
                      inspire_id |-> Get(hit, "id", JNull)]]

\* FetchHit taking the year from earliest_date alone
FetchHitYearFromDate(hit) ==
  LET meta == Get(hit, "metadata", <<>>)
      doc_types == Get(meta, "document_type", <<>>)
      titles == Get(meta, "titles", <<(<<>>)>>)
      eprints == Get(meta, "arxiv_eprints", <<>>)
      pubs == Get(meta, "publication_info", <<>>)
      dois == Get(meta, "dois", <<>>)
      pub_info == IF pubs # <<>> THEN pubs[1] ELSE <<>>
      earliest == Get(meta, "earliest_date", "")
  IN IF InList("thesis", doc_types) THEN [kind |-> "skip"]
     ELSE IF titles = <<>> THEN [kind |-> "raise", error |-> "IndexError"]
     ELSE [kind |-> "paper",
           paper |-> [title |-> Get(titles[1], "title", "Untitled"),
                      authors |-> Get(meta, "authors", <<>>),
                      arxiv |-> IF eprints # <<>> THEN Get(eprints[1], "value", JNull)
                                ELSE JNull,
                      journal |-> Get(pub_info, "journal_title", JNull),
                      year |-> JStr(SubSeq(earliest, 1, Min(4, Len(earliest)))),
                      doi |-> IF dois # <<>> THEN Get(dois[1], "value", JNull) ELSE JNull,
                      inspire_id |-> Get(hit, "id", JNull)]]

\* One iteration of the loop of fetch_papers over a hit:
\*   [kind |-> "skip"]                 the thesis `continue`
\*   [kind |-> "raise", error |-> e]   the exception the iteration raises
\*   [kind |-> "paper", paper |-> p]   the record appended
FetchHit(hit) ==
  LET meta == Get(hit, "metadata", <<>>)
      doc_types == Get(meta, "document_type", <<>>)
      titles == Get(meta, "titles", <<(<<>>)>>)
      eprints == Get(meta, "arxiv_eprints", <<>>)
      pubs == Get(meta, "publication_info", <<>>)
      dois == Get(meta, "dois", <<>>)
      arxiv == IF eprints # <<>> THEN Get(eprints[1], "value", JNull) ELSE JNull
      pub_info == IF pubs # <<>> THEN pubs[1] ELSE <<>>
      journal == Get(pub_info, "journal_title", JNull)
      pub_year == Get(pub_info, "year", JNull)
      earliest == Get(meta, "earliest_date", "")
      year == IF ~Truthy(pub_year)
              THEN (IF earliest # "" THEN JStr(SubSeq(earliest, 1, Min(4, Len(earliest))))
                    ELSE JStr(""))
              ELSE pub_year
      doi == IF dois # <<>> THEN Get(dois[1], "value", JNull) ELSE JNull
  IN IF InList("thesis", doc_types) THEN [kind |-> "skip"]
     ELSE IF titles = <<>> THEN [kind |-> "raise", error |-> "IndexError"]
     ELSE [kind |-> "paper",
           paper |-> [title |-> Get(titles[1], "title", "Untitled"),
                      authors |-> Get(meta, "authors", <<>>),
                      arxiv |-> arxiv,
                      journal |-> journal,
                      year |-> year,
                      doi |-> doi,
                      inspire_id |-> Get(hit, "id", JNull)]]

\* The loop over the hits: error is "" when the loop ran to its end, else the
\* exception that ended it (papers is then what had been appended so far)
RECURSIVE FetchLoop(_, _)
FetchLoop(hits, papers) ==
  IF hits = <<>> THEN [error |-> "", papers |-> papers]
  ELSE LET r == FetchHit(Head(hits))
       IN CASE r.kind = "skip" -> FetchLoop(Tail(hits), papers)
            [] r.kind = "raise" -> [error |-> r.error, papers |-> papers]
            [] r.kind = "paper" -> FetchLoop(Tail(hits), Append(papers, r.paper))

\* data.get("hits", {}).get("hits", [])
HitsOf(body) == Get(Get(body, "hits", <<>>), "hits", <<>>)

\* fetch_papers on the parsed response body `data`
fetch_papers(data) == FetchLoop(HitsOf(data), <<>>)

(* ------------------------------------------------------------------ *)
(* Files, update_file and compile_cv                                   *)
(* ------------------------------------------------------------------ *)

INDEX_HTML == "index.html"
CV_TEX == "cv/cv.tex"
Paths == {INDEX_HTML, CV_TEX}

\* the marker pair main passes for each target file
StartMarker(path) ==
  IF path = INDEX_HTML THEN "<!-- PUBLICATIONS-START -->" ELSE "% PUBLICATIONS-START"
EndMarker(path) ==
  IF path = INDEX_HTML THEN "<!-- PUBLICATIONS-END -->" ELSE "% PUBLICATIONS-END"

\* f.read() on a file opened with open(path, "r"): text mode with universal
\* newlines, so every "\r\n" and every remaining "\r" of the file is read as "\n"
ReadText(raw) == Replace(Replace(raw, "\r\n", "\n"), "\r", "\n")

\* What the operating system does with update_file, which is to write a text
\* of n characters:
\*   "ok"            both with-blocks succeed
\*   "read_fails"    open(path, "r") raises OSError
\*   "decode_fails"  the file opens, f.read() raises UnicodeDecodeError (the
\*                   bytes of the file are not UTF-8)
\*   "write_fails"   open(path, "w") raises OSError, the file is as it was
\*   "write_cut"     open(path, "w") truncated the file and the write raises
\*                   OSError after `written` < n characters reached the file
IOOutcomes(n) ==
  {[kind |-> k] : k \in {"ok", "read_fails", "decode_fails", "write_fails"}}
    \cup {[kind |-> "write_cut", written |-> k] : k \in 0..(n - 1)}

\* update_file catching the exceptions of its with-blocks and returning
update_file_no_raise(files, path, start_marker, end_marker, new_content) ==
  LET text == ReadText(files[path])
      updated == replace_between_markers(text, start_marker, end_marker, new_content)
      reads == << <<"read", path>> >>
  IN {CASE io.kind = "read_fails" ->
             [io |-> io.kind, fs |-> files, error |-> "", events |-> <<>>]
        [] io.kind = "decode_fails" ->
             [io |-> io.kind, fs |-> files, error |-> "", events |-> reads]
        [] io.kind = "write_fails" ->
             [io |-> io.kind, fs |-> files, error |-> "", events |-> reads]
        [] io.kind = "write_cut" ->
             [io |-> io.kind,
              fs |-> [files EXCEPT ![path] = SubSeq(updated, 1, io.written)],
              error |-> "",
              events |-> Append(reads, <<"write", path, SubSeq(updated, 1, io.written)>>)]
        [] io.kind = "ok" ->
             [io |-> io.kind, fs |-> [files EXCEPT ![path] = updated], error |-> "",
              events |-> Append(reads, <<"write", path, updated>>)]
      : io \in IOOutcomes(Len(updated))}

\* update_file on the file system files: what the call can do, one record for
\* each thing the operating system can do with it: the file system after the
\* call, the exception it raises ("" for none) and the file operations it
\* performed. The text is written as it is: on the platform the script runs
\* on, os.linesep is "\n" and write() translates nothing.
update_file(files, path, start_marker, end_marker, new_content) ==
  LET text == ReadText(files[path])
      updated == replace_between_markers(text, start_marker, end_marker, new_content)
      reads == << <<"read", path>> >>
  IN {CASE io.kind = "read_fails" ->
             [io |-> io.kind, fs |-> files, error |-> "OSError", events |-> <<>>]
        [] io.kind = "decode_fails" ->
             [io |-> io.kind, fs |-> files, error |-> "UnicodeDecodeError",
              events |-> reads]
        [] io.kind = "write_fails" ->
             [io |-> io.kind, fs |-> files, error |-> "OSError", events |-> reads]
        [] io.kind = "write_cut" ->
             [io |-> io.kind,
              fs |-> [files EXCEPT ![path] = SubSeq(updated, 1, io.written)],
              error |-> "OSError",
              events |-> Append(reads, <<"write", path, SubSeq(updated, 1, io.written)>>)]
        [] io.kind = "ok" ->
             [io |-> io.kind, fs |-> [files EXCEPT ![path] = updated], error |-> "",
              events |-> Append(reads, <<"write", path, updated>>)]
      : io \in IOOutcomes(Len(updated))}

\* range(2) in compile_cv
CompilePasses == 2

\* What one subprocess.run of pdflatex can do: not start, subprocess.run
\* raising the OSError of the failed exec (FileNotFoundError when there is no
\* pdflatex on the PATH or no cv directory, PermissionError when the file
\* found may not be executed, another OSError otherwise), or run and end with
\* a return code (negative when a signal ended it). printable: whether the
\* standard output of the script can encode the last 20 lines pdflatex wrote,
\* decoded with errors="replace" (an ASCII standard output cannot encode a
\* line that holds a byte above 0x7f)
PassOutcomes ==
  {[started |-> FALSE, returncode |-> 0, error |-> e, printable |-> TRUE] :
     e \in {"FileNotFoundError", "PermissionError", "OSError"}}
    \cup {[started |-> TRUE, returncode |-> c, error |-> "", printable |-> b] :
            c \in {0, 1, -9}, b \in BOOLEAN}

\* The loop of compile_cv from pass i on: the exception of a pass that does not
\* start ends it; on a non-zero return code the last lines of the output are
\* printed, the print raising UnicodeEncodeError when they cannot be encoded,
\* and otherwise the loop goes on
RECURSIVE CompileLoop(_, _, _)
CompileLoop(i, outcomes, codes) ==
  IF i > CompilePasses THEN [exits |-> codes, error |-> ""]
  ELSE IF ~outcomes[i].started THEN [exits |-> codes, error |-> outcomes[i].error]
  ELSE IF outcomes[i].returncode # 0 /\ ~outcomes[i].printable
  THEN [exits |-> Append(codes, outcomes[i].returncode), error |-> "UnicodeEncodeError"]
  ELSE CompileLoop(i + 1, outcomes, Append(codes, outcomes[i].returncode))

\* compile_cv, given what each invocation of pdflatex does: the return codes
\* of the invocations made and the exception raised ("" for none)
compile_cv(outcomes) == CompileLoop(1, outcomes, <<>>)

\* main without the `if not papers: return`
after_fetch_no_guard(fetched) == "generate_html"

\* `if not papers: return` of main: where main goes after the fetch
after_fetch(fetched) == IF fetched = <<>> THEN "done" ELSE "generate_html"

(* ------------------------------------------------------------------ *)
(* Inputs                                                              *)
(* ------------------------------------------------------------------ *)

MaxHits == 3
MaxPieces == 4
MaxAuthors == 5

\* all sequences over S of length at most n
SeqsUpTo(S, n) == UNION {[1..k -> S] : k \in 0..n}

\* a JSON object with the key k bound to one of vals, or without the key
Optional(k, vals) == {<<>>} \cup {k :> v : v \in vals}

\* the response body holding the given hits
Response(hits) == "hits" :> ("hits" :> hits)

OwnerEntry == [full_name |-> "Berean-Dutcher, Jonah"]
SmithEntry == [full_name |-> "Smith, John"]
DoeEntry == [full_name |-> "Doe, Jane Q."]

\* hits as INSPIRE returns them: an article with an arXiv id, an article with
\* a DOI only, a thesis, an article that is also marked a thesis, a hit
\* without document_type, a hit whose titles list is empty, and (below) a hit
\* whose journal_title is a number
ArxivHit ==
  ("id" :> JStr("101")) @@
  ("metadata" :> [document_type |-> <<"article">>,
                  titles |-> <<[title |-> "A"]>>,
                  authors |-> <<OwnerEntry, SmithEntry>>,
                  arxiv_eprints |-> <<[value |-> JStr("2001.00001")]>>,
                  earliest_date |-> "2020-01-03"])
DoiHit ==
  ("id" :> JStr("102")) @@
  ("metadata" :> [document_type |-> <<"article">>,
                  titles |-> <<[title |-> "B & C"]>>,
                  authors |-> <<SmithEntry, OwnerEntry>>,
                  dois |-> <<[value |-> JStr("10.1/b_c")]>>,
                  publication_info |-> <<[journal_title |-> JStr("JHEP"),
                                          year |-> JInt(2021)]>>,
                  earliest_date |-> "2021-02-03"])
ThesisHit ==
  ("id" :> JStr("103")) @@
  ("metadata" :> [document_type |-> <<"thesis">>,
                  titles |-> <<[title |-> "T"]>>,
                  authors |-> <<OwnerEntry>>,
                  earliest_date |-> "2019-06-01"])
ArticleThesisHit ==
  ("id" :> JStr("104")) @@
  ("metadata" :> [document_type |-> <<"article", "thesis">>,
                  titles |-> <<[title |-> "U"]>>,
                  authors |-> <<OwnerEntry>>])
UntypedHit ==
  ("id" :> JStr("105")) @@
  ("metadata" :> [titles |-> <<[title |-> "D"]>>,
                  authors |-> <<DoeEntry>>])
NoTitlesHit ==
  ("id" :> JStr("106")) @@
  ("metadata" :> [document_type |-> <<"article">>,
                  titles |-> <<>>,
                  authors |-> <<OwnerEntry>>])

NumberJournalHit ==
  ("id" :> JStr("108")) @@
  ("metadata" :> [document_type |-> <<"article">>,
                  titles |-> <<[title |-> "N"]>>,
                  authors |-> <<OwnerEntry>>,
                  publication_info |-> <<[journal_title |-> JInt(5),
                                          year |-> JInt(2022)]>>])

MainHits == {ArxivHit, DoiHit, ThesisHit, NoTitlesHit, NumberJournalHit}
OrderHits == {ArxivHit, DoiHit, ThesisHit, ArticleThesisHit, UntypedHit}

\* single hits over every shape of the fields fetch_papers reads
ShapeMetas ==
  {a @@ b @@ c @@ d @@ e @@ ("authors" :> <<SmithEntry, OwnerEntry>>) :
     a \in Optional("document_type", {<<"article">>, <<"thesis">>, <<"book", "thesis">>}),
     b \in Optional("titles", {<<>>, <<(<<>>)>>, <<[title |-> "A"]>>,
                               <<[title |-> "B & C"], [title |-> "Z"]>>}),
     c \in Optional("publication_info",
                    {<<>>, <<(<<>>)>>,
                     <<[journal_title |-> JStr("JHEP"), year |-> JInt(2020)]>>,
                     <<[year |-> JStr("19")]>>,
                     <<[journal_title |-> JInt(5), year |-> JInt(2020)]>>,
                     <<[journal_title |-> JStr("A&A"), year |-> JNull]>>}),
     d \in Optional("earliest_date", {"", "202", "2019-05-01"}),
     e \in Optional("arxiv_eprints", {<<[value |-> JStr("2001.00001")]>>})
         \cup Optional("dois", {<<[value |-> JStr("10.1/b_c")]>>})}
ShapeHits == {("id" :> JStr("107")) @@ ("metadata" :> m) : m \in ShapeMetas}

\* bodies without the outer or the inner "hits" key
BareResponses == {<<>>, "hits" :> <<>>}

MainResponses == {Response(hs) : hs \in SeqsUpTo(MainHits, MaxHits)} \cup BareResponses
FetchResponses ==
  {Response(hs) : hs \in SeqsUpTo(OrderHits, MaxHits)} \cup {Response(<<h>>) : h \in ShapeHits}
    \cup BareResponses

\* target files: with the marker pair around an old list, and without markers,
\* the latter with "\n" or with "\r\n" and "\r" line ends
FileTexts(path) ==
  {"head\n" \o StartMarker(path) \o "\nold\n" \o EndMarker(path) \o "\ntail\n",
   "head\ntail\n",
   "head\r\ntail\r"}

\* texts for the splice: up to MaxPieces pieces, each a marker, plain text or a
\* "\r\n" line end
RECURSIVE Concat(_)
Concat(pieces) == IF pieces = <<>> THEN "" ELSE Head(pieces) \o Concat(Tail(pieces))
SpliceTexts(path) ==
  {Concat(ps) : ps \in SeqsUpTo({StartMarker(path), EndMarker(path), "x", "\r\n"},
                                 MaxPieces)}
SpliceContents(path) ==
  {"one", "two", EndMarker(path) \o "e"}

AuthorEntries ==
  {OwnerEntry, [full_name |-> "Berean, J."], SmithEntry, DoeEntry, [full_name |-> "Madonna"]}

(* ------------------------------------------------------------------ *)
(* State                                                               *)
(* ------------------------------------------------------------------ *)

VARIABLES
  pc,             \* where the run is
  data,           \* the parsed body the API answers with
  papers,         \* main's papers
  html_content,   \* main's html_content
  latex_content,  \* main's latex_content
  fs,             \* the content of each target file
  fs0,            \* the content of each target file when the run began
  trace,          \* the file operations and pdflatex invocations made, in order
  exits,          \* the return codes of the pdflatex invocations made
  error,          \* the exception that ended the run, "" for none
  hist,           \* the update_file calls made: path, content, text before, outcome
  authors,        \* the author list handed to the author list renderers
  out             \* what the author list renderers returned

vars == <<pc, data, papers, html_content, latex_content, fs, fs0, trace, exits,
          error, hist, authors, out>>

(* ------------------------------------------------------------------ *)
(* main                                                                *)
(* ------------------------------------------------------------------ *)

Idle ==
  /\ papers = <<>> /\ html_content = "" /\ latex_content = ""
  /\ trace = <<>> /\ exits = <<>> /\ error = "" /\ hist = <<>>
  /\ authors = <<>> /\ out = <<>>

InitMain ==
  /\ pc = "fetch"
  /\ data \in MainResponses
  /\ fs \in {(INDEX_HTML :> a) @@ (CV_TEX :> b) :
               a \in FileTexts(INDEX_HTML), b \in FileTexts(CV_TEX)}
  /\ fs0 = fs
  /\ Idle

\* papers = fetch_papers(): the request fails, or the body is parsed and the
\* loop over the hits runs
Fetch ==
  /\ pc = "fetch"
  /\ \E net \in {"ok", "fails"} :
       LET r == fetch_papers(data)
       IN IF net = "fails"
          THEN /\ pc' = "failed" /\ error' = "URLError" /\ UNCHANGED papers
          ELSE IF r.error # ""
          THEN /\ pc' = "failed" /\ error' = r.error /\ UNCHANGED papers
          ELSE /\ pc' = "fetched" /\ papers' = r.papers /\ UNCHANGED error
  /\ UNCHANGED <<data, html_content, latex_content, fs, fs0, trace, exits, hist,
                 authors, out>>

\* if not papers: print, return
Guard ==
  /\ pc = "fetched"
  /\ pc' = after_fetch(papers)
  /\ UNCHANGED <<data, papers, html_content, latex_content, fs, fs0, trace, exits,
                 error, hist, authors, out>>

GenerateHtml ==
  /\ pc = "generate_html"
  /\ html_content' = generate_html(papers)
  /\ pc' = "generate_latex"
  /\ UNCHANGED <<data, papers, latex_content, fs, fs0, trace, exits, error, hist,
                 authors, out>>

GenerateLatex ==
  /\ pc = "generate_latex"
  /\ LET r == generate_latex(papers)
     IN IF r.error # ""
        THEN /\ pc' = "failed" /\ error' = r.error /\ UNCHANGED latex_content
        ELSE /\ pc' = "update_index" /\ latex_content' = r.text /\ UNCHANGED error
  /\ UNCHANGED <<data, papers, html_content, fs, fs0, trace, exits, hist,
                 authors, out>>

\* one call update_file(path, start marker, end marker, content) at position
\* here of the run, which goes on at position next when the call returns
Update(here, next, path, content) ==
  /\ pc = here
  /\ \E r \in update_file(fs, path, StartMarker(path), EndMarker(path), content) :
       /\ fs' = r.fs
       /\ trace' = trace \o r.events
       /\ error' = r.error
       /\ hist' = Append(hist, [path |-> path, content |-> content,
                                before |-> fs[path], io |-> r.io])
       /\ pc' = IF r.error = "" THEN next ELSE "failed"

UpdateIndex ==
  /\ Update("update_index", "update_cv", INDEX_HTML, html_content)
  /\ UNCHANGED <<data, papers, html_content, latex_content, fs0, exits, authors, out>>

UpdateCv ==
  /\ Update("update_cv", "compile", CV_TEX, latex_content)
  /\ UNCHANGED <<data, papers, html_content, latex_content, fs0, exits, authors, out>>

\* compile_cv() and the final print
Compile ==
  /\ pc = "compile"
  /\ \E outcomes \in [1..CompilePasses -> PassOutcomes] :
       LET r == compile_cv(outcomes)
       IN /\ exits' = r.exits
          /\ trace' = trace \o [i \in 1..Len(r.exits) |-> <<"run", "pdflatex">>]
          /\ error' = r.error
          /\ pc' = IF r.error = "" THEN "done" ELSE "failed"
  /\ UNCHANGED <<data, papers, html_content, latex_content, fs, fs0, hist, authors, out>>

NextMain == Fetch \/ Guard \/ GenerateHtml \/ GenerateLatex \/ UpdateIndex \/ UpdateCv \/ Compile

SpecMain == InitMain /\ [][NextMain]_vars

(* ------------------------------------------------------------------ *)
(* fetch and render, over every shape of hit                           *)
(* ------------------------------------------------------------------ *)

InitFetch ==
  /\ pc = "fetch"
  /\ data \in FetchResponses
  /\ fs = (INDEX_HTML :> "") @@ (CV_TEX :> "")
  /\ fs0 = fs
  /\ Idle

NextFetch == Fetch \/ Guard \/ GenerateHtml \/ GenerateLatex

SpecFetch == InitFetch /\ [][NextFetch]_vars

(* ------------------------------------------------------------------ *)
(* update_file twice on one file                                       *)
(* ------------------------------------------------------------------ *)

InitSplice ==
  /\ pc = "splice1"
  /\ \E path \in Paths : \E text \in SpliceTexts(path) : fs = (path :> text)
  /\ fs0 = fs
  /\ data = <<>>
  /\ Idle

Splice(here, next) ==
  /\ \E path \in DOMAIN fs : \E content \in SpliceContents(path) :
       Update(here, next, path, content)
  /\ UNCHANGED <<data, papers, html_content, latex_content, fs0, exits, authors, out>>

SpliceFirst == Splice("splice1", "splice2")
SpliceSecond == Splice("splice2", "done")

NextSplice == SpliceFirst \/ SpliceSecond

SpecSplice == InitSplice /\ [][NextSplice]_vars

(* ------------------------------------------------------------------ *)
(* the author list renderers on one author list                        *)
(* ------------------------------------------------------------------ *)

InitAuthors ==
  /\ pc = "authors"
  /\ authors \in SeqsUpTo(AuthorEntries, MaxAuthors)
  /\ out = <<>>
  /\ data = <<>>
  /\ fs = (INDEX_HTML :> "") @@ (CV_TEX :> "")
  /\ fs0 = fs
  /\ papers = <<>> /\ html_content = "" /\ latex_content = ""
  /\ trace = <<>> /\ exits = <<>> /\ error = "" /\ hist = <<>>

AuthorsHtml ==
  /\ pc = "authors"
  /\ "html" \notin DOMAIN out
  /\ out' = out @@ ("html" :> JStr(author_list_html(authors)))
  /\ UNCHANGED <<pc, data, papers, html_content, latex_content, fs, fs0, trace, exits,
                 error, hist, authors>>

AuthorsLatex ==
  /\ pc = "authors"
  /\ "latex" \notin DOMAIN out
  /\ out' = out @@ ("latex" :> author_list_latex(authors))
  /\ UNCHANGED <<pc, data, papers, html_content, latex_content, fs, fs0, trace, exits,
                 error, hist, authors>>

NextAuthors == AuthorsHtml \/ AuthorsLatex

SpecAuthors == InitAuthors /\ [][NextAuthors]_vars

(* ------------------------------------------------------------------ *)
(* The marker splice: C1, C2, C3 (under SpecSplice)                     *)
(* ------------------------------------------------------------------ *)

\* the places where sub occurs in text
Places(text, sub) ==
  {i \in 1..(Len(text) - Len(sub) + 1) : SubSeq(text, i, i + Len(sub) - 1) = sub}

Occurrences(text, sub) == Cardinality(Places(text, sub))

\* text holds a start marker followed later by an end marker
HasSpan(text, path) ==
  \E i \in Places(text, StartMarker(path)) : \E j \in Places(text, EndMarker(path)) :
    j >= i + Len(StartMarker(path))

MarkerFree(text, path) ==
  /\ Places(text, StartMarker(path)) = {}
  /\ Places(text, EndMarker(path)) = {}

\* what a span is replaced by
Region(path, content) == StartMarker(path) \o "\n" \o content \o "\n" \o EndMarker(path)

\* the update_file call made last, and whether it returned
Last == hist[Len(hist)]
LastReturned == hist # <<>> /\ Last.io = "ok"

\* both update_file calls of the run returned
TwoSplicesDone == pc = "done" /\ Len(hist) = 2

\* the text the first update_file call of the run read from the file, which is
\* what replace_between_markers was applied to
TextRead == ReadText(hist[1].before)

\* C1 as stated: for any text holding the marker pair and any two contents c1, c2,
\* after replace_between_markers with c1 and then with c2 the text holds exactly
\* one start marker and one end marker, with "\n" c2 "\n" between them, and the
\* text outside the marked region as it was.
C1_AnyTextAnyContents ==
  (TwoSplicesDone /\ HasSpan(TextRead, hist[1].path)) =>
    LET path == hist[1].path
        S == StartMarker(path)
        E == EndMarker(path)
    IN /\ Occurrences(fs[path], S) = 1
       /\ Occurrences(fs[path], E) = 1
       /\ \E i \in Places(TextRead, S) : \E j \in Places(TextRead, E) :
            /\ j >= i + Len(S)
            /\ fs[path] = SubSeq(TextRead, 1, i - 1) \o Region(path, hist[2].content)
                          \o Suffix(TextRead, j + Len(E))

\* the case C1 holds in: the text holds exactly one start marker and exactly one
\* end marker, the start marker first, and neither content holds a marker
SinglePair(text, path) ==
  /\ Occurrences(text, StartMarker(path)) = 1
  /\ Occurrences(text, EndMarker(path)) = 1
  /\ HasSpan(text, path)

\* C1 (amended): for a text that holds exactly one start marker and exactly one
\* end marker, the start marker first, and two contents c1, c2 that hold no
\* marker, replace_between_markers with c1 and then with c2 leaves exactly one
\* start marker and one end marker, "\n" c2 "\n" between them, nothing of c1, and
\* the text before the start marker and after the end marker as it was.
C1_SinglePairRoundTrip ==
  (/\ TwoSplicesDone
   /\ SinglePair(TextRead, hist[1].path)
   /\ MarkerFree(hist[1].content, hist[1].path)
   /\ MarkerFree(hist[2].content, hist[1].path)) =>
    LET path == hist[1].path
        S == StartMarker(path)
        E == EndMarker(path)
        i == CHOOSE k \in Places(TextRead, S) : TRUE
        j == CHOOSE k \in Places(TextRead, E) : TRUE
    IN /\ Occurrences(fs[path], S) = 1
       /\ Occurrences(fs[path], E) = 1
       /\ fs[path] = SubSeq(TextRead, 1, i - 1) \o Region(path, hist[2].content)
                     \o Suffix(TextRead, j + Len(E))
       /\ (hist[1].content # hist[2].content => ~Contains(fs[path], hist[1].content))

\* a run of C1's case: two different marker-free contents spliced into a text
\* with one marker pair, text before it and a "\r\n" line end after it
C1_Witness ==
  /\ TwoSplicesDone
  /\ SinglePair(TextRead, hist[1].path)
  /\ MarkerFree(hist[1].content, hist[1].path)
  /\ MarkerFree(hist[2].content, hist[1].path)
  /\ hist[1].content # hist[2].content
  /\ Contains(hist[1].before, EndMarker(hist[1].path) \o "\r\n")
  /\ Contains(fs[hist[1].path], "x" \o StartMarker(hist[1].path))
  /\ Contains(fs[hist[1].path], hist[2].content)

\* the text with only its first start marker ... end marker span replaced
FirstSpanReplaced(text, path, content) ==
  LET i == Find(text, StartMarker(path), 1)
      j == IF i = 0 THEN 0 ELSE Find(text, EndMarker(path), i + Len(StartMarker(path)))
  IN IF i = 0 \/ j = 0 THEN text
     ELSE SubSeq(text, 1, i - 1) \o Region(path, content)
          \o Suffix(text, j + Len(EndMarker(path)))

\* C2 as stated: replace_between_markers, on the text update_file read, replaces
\* only the first start marker ... end marker span; every later pair, and the
\* text between them, is left as it was.
C2_OnlyFirstSpanReplaced ==
  LastReturned =>
    fs[Last.path] = FirstSpanReplaced(ReadText(Last.before), Last.path, Last.content)

\* the text with every span replaced, scanning left to right: the first span,
\* then every span of what follows it
RECURSIVE EverySpanReplaced(_, _, _)
EverySpanReplaced(text, path, content) ==
  IF ~HasSpan(text, path) THEN text
  ELSE LET i == Find(text, StartMarker(path), 1)
           j == Find(text, EndMarker(path), i + Len(StartMarker(path)))
       IN SubSeq(text, 1, i - 1) \o Region(path, content)
          \o EverySpanReplaced(Suffix(text, j + Len(EndMarker(path))), path, content)

\* C2 (amended): replace_between_markers, on the text update_file read, replaces
\* every non-overlapping span from a start marker to the next end marker,
\* scanning left to right, not only the first; the text outside those spans is
\* left as it was.
C2_EverySpanReplaced ==
  LastReturned =>
    fs[Last.path] = EverySpanReplaced(ReadText(Last.before), Last.path, Last.content)

\* a text with two marker pairs was spliced twice, and both regions hold the
\* content of the second call
C2_Witness ==
  /\ Len(hist) = 2
  /\ hist[1].io = "ok"
  /\ hist[1].content = "one"
  /\ hist[1].before = StartMarker(hist[1].path) \o EndMarker(hist[1].path)
                      \o StartMarker(hist[1].path) \o EndMarker(hist[1].path)
  /\ hist[2].io = "ok"
  /\ hist[2].content = "two"
  /\ fs[hist[1].path] = Region(hist[1].path, "two") \o Region(hist[1].path, "two")

\* C3 as stated: when the file holds no start marker followed later by an end
\* marker, update_file (its two with-blocks succeeding) returns without an
\* error, the file is as it was, and the content is nowhere in it unless it was
\* before.
C3_NoSpanNoChange ==
  (LastReturned /\ ~HasSpan(Last.before, Last.path)) =>
    /\ fs[Last.path] = Last.before
    /\ error = "" /\ pc # "failed"
    /\ (Contains(fs[Last.path], Last.content) => Contains(Last.before, Last.content))

(* ------------------------------------------------------------------ *)
(* main: C4, C5, C6 (under SpecMain)                                    *)
(* ------------------------------------------------------------------ *)

\* the fetch returned, and returned no records
FetchedNothing ==
  /\ pc # "fetch"
  /\ error \notin {"URLError", "IndexError"}
  /\ papers = <<>>

\* C4: in a run whose fetch yields no records the run ends normally, neither
\* target file is read or written and pdflatex is never invoked.
C4_EmptyFetchAborts ==
  FetchedNothing =>
    /\ pc \in {"fetched", "done"}
    /\ error = ""
    /\ trace = <<>>
    /\ hist = <<>>
    /\ exits = <<>>
    /\ fs = fs0

\* a run over theses only has ended, the target files holding their markers
C4_Witness ==
  /\ pc = "done"
  /\ papers = <<>>
  /\ HitsOf(data) = <<ThesisHit, ThesisHit>>
  /\ HasSpan(fs[INDEX_HTML], INDEX_HTML)
  /\ HasSpan(fs[CV_TEX], CV_TEX)

IsPrefix(s, t) == Len(s) <= Len(t) /\ SubSeq(t, 1, Len(s)) = s

\* what each entry of the trace did, and to what
TraceOps == [i \in 1..Len(trace) |-> <<trace[i][1], trace[i][2]>>]

FullRun ==
  << <<"read", INDEX_HTML>>, <<"write", INDEX_HTML>>,
     <<"read", CV_TEX>>, <<"write", CV_TEX>>,
     <<"run", "pdflatex">>, <<"run", "pdflatex">> >>

\* the splice of index.html returned and the splice of cv.tex raised
CvSpliceFailed ==
  /\ Len(hist) = 2
  /\ hist[1].path = INDEX_HTML /\ hist[1].io = "ok"
  /\ hist[2].path = CV_TEX /\ hist[2].io # "ok"

\* C5: index.html is read and written before cv.tex is touched, and pdflatex is
\* invoked only after both splices returned; when the splice of cv.tex fails
\* after that of index.html returned, index.html keeps what was written to it
\* and pdflatex is never invoked.
C5_IndexThenCvThenCompile ==
  /\ IsPrefix(TraceOps, FullRun)
  /\ (\E i \in 1..Len(trace) : trace[i][1] = "run") =>
       /\ Len(hist) = 2
       /\ hist[1].path = INDEX_HTML /\ hist[1].io = "ok"
       /\ hist[2].path = CV_TEX /\ hist[2].io = "ok"
  /\ CvSpliceFailed =>
       /\ pc = "failed"
       /\ fs[INDEX_HTML] = trace[2][3]
       /\ (HasSpan(fs0[INDEX_HTML], INDEX_HTML) => Contains(fs[INDEX_HTML], html_content))
       /\ exits = <<>>
       /\ \A i \in 1..Len(trace) : trace[i][1] # "run"

\* the splice of cv.tex failed and index.html holds the new list
C5_Witness ==
  /\ CvSpliceFailed
  /\ fs[INDEX_HTML] # fs0[INDEX_HTML]
  /\ Contains(fs[INDEX_HTML], html_content)
  /\ Len(papers) = 2

\* compile_cv was reached: both splices returned
ReachedCompile ==
  /\ Len(hist) = 2
  /\ hist[1].io = "ok"
  /\ hist[2].io = "ok"
  /\ pc # "compile"

\* the exceptions of a pdflatex that cannot be started
StartFailures == {o.error : o \in {x \in PassOutcomes : ~x.started}}

\* C6 as stated: in a run that reaches compile_cv, pdflatex is invoked exactly
\* twice whatever its exit status, and the run reaches its end, unless pdflatex
\* could not be started: then, and only then, the run ends with the exception
\* of that start, before the second return code.
C6_TwoPassesWhateverExit ==
  ReachedCompile =>
    \/ /\ pc = "done"
       /\ error = ""
       /\ Len(exits) = CompilePasses
       /\ Cardinality({i \in 1..Len(trace) : trace[i][1] = "run"}) = CompilePasses
    \/ /\ pc = "failed"
       /\ error \in StartFailures
       /\ Len(exits) < CompilePasses
       /\ Cardinality({i \in 1..Len(trace) : trace[i][1] = "run"}) = Len(exits)

(* ------------------------------------------------------------------ *)
(* The truncated author list: C7 (under SpecAuthors)                    *)
(* ------------------------------------------------------------------ *)

\* s.split(sep) for a non-empty sep
RECURSIVE Split(_, _)
Split(s, sep) ==
  LET i == Find(s, sep, 1)
  IN IF i = 0 THEN <<s>>
     ELSE <<SubSeq(s, 1, i - 1)>> \o Split(Suffix(s, i + Len(sep)), sep)

EndsWith(s, tail) == Len(s) >= Len(tail) /\ Suffix(s, Len(s) - Len(tail) + 1) = tail

\* the full names of the entries that are not the owner's, in order
NonOwners(list) == SelectSeq(FullNames(list), LAMBDA fn : ~is_me(fn))

\* the 0-based positions of the owner's entries
OwnerPositions(list) == {i - 1 : i \in {k \in 1..Len(list) : is_me(FullNames(list)[k])}}

\* seq without its k-th element
Without(seq, k) == SubSeq(seq, 1, k - 1) \o SubSeq(seq, k + 1, Len(seq))

\* C7: for an author list with more than 2 non-owner authors author_list_html
\* returns exactly 3 names joined by ", " and then " et al.": the short forms of
\* the first two non-owner authors in their order, and the owner's bold string
\* at position min(owner_index, 2), owner_index being the position of the
\* owner's entry in the list (of the last one when several entries are the
\* owner's), or at position 0 when no entry is the owner's.
C7_TruncatedHtmlList ==
  ("html" \in DOMAIN out /\ Len(NonOwners(authors)) > 2) =>
    LET s == out["html"].v
        names == Split(SubSeq(s, 1, Len(s) - Len(" et al.")), ", ")
        own == OwnerPositions(authors)
        at == IF own = {} THEN 0
              ELSE Min(CHOOSE i \in own : \A j \in own : j <= i, 2)
    IN /\ EndsWith(s, " et al.")
       /\ Len(names) = 3
       /\ names[at + 1] = "<strong>J. Berean-Dutcher</strong>"
       /\ Without(names, at + 1) = <<format_author_short(NonOwners(authors)[1]),
                                     format_author_short(NonOwners(authors)[2])>>

\* the owner fourth of five authors: shown third, after the first two coauthors
C7_Witness ==
  /\ "html" \in DOMAIN out
  /\ authors = <<SmithEntry, DoeEntry, [full_name |-> "Madonna"], OwnerEntry, SmithEntry>>
  /\ out["html"].v = "J. Smith, J. Doe, <strong>J. Berean-Dutcher</strong> et al."

(* ------------------------------------------------------------------ *)
(* Fetch and render: C8, C9, C10 (under SpecFetch)                      *)
(* ------------------------------------------------------------------ *)

IsThesis(hit) ==
  InList("thesis", Get(Get(hit, "metadata", <<>>), "document_type", <<>>))

\* the hits that are not theses, in the order of the response
NonThesisHits == SelectSeq(HitsOf(data), LAMBDA h : ~IsThesis(h))

\* fetch_papers returned
Fetched == pc # "fetch" /\ error \notin {"URLError", "IndexError"}

\* the title a hit is listed under: that of the first entry of its titles
\* list, "Untitled" when the list is missing or empty
ListedTitle(hit) ==
  LET titles == Get(Get(hit, "metadata", <<>>), "titles", <<>>)
  IN IF titles = <<>> THEN "Untitled" ELSE Get(titles[1], "title", "Untitled")

StartsWith(s, head) == Len(s) >= Len(head) /\ SubSeq(s, 1, Len(head)) = head

\* the headings of the cards of an HTML fragment, in order
CardTitles(html) ==
  LET hs == SelectSeq(Split(html, "\n"),
                      LAMBDA l : StartsWith(l, "          <h3>") /\ EndsWith(l, "</h3>"))
  IN [i \in 1..Len(hs) |->
        SubSeq(hs[i], Len("          <h3>") + 1, Len(hs[i]) - Len("</h3>"))]

\* the items of a LaTeX fragment, in order
Items(latex) == SelectSeq(Split(latex, "\n"), LAMBDA l : StartsWith(l, "\\item "))

\* C8: a hit whose document_type holds "thesis" is in no fetched record and in
\* neither rendering; every other hit is in the fetched records and in each
\* rendering exactly once, in the order of the response: one card per record
\* in the HTML, one item per record in the LaTeX list.
C8_ThesesDroppedOrderKept ==
  LET hits == NonThesisHits
  IN /\ Fetched =>
          /\ Len(papers) = Len(hits)
          /\ \A k \in 1..Len(hits) :
               /\ papers[k].inspire_id = hits[k]["id"]
               /\ papers[k].title = ListedTitle(hits[k])
     /\ pc \in {"generate_latex", "update_index"} =>
          /\ Occurrences(html_content, "<div class=\"card\">") = Len(hits)
          /\ CardTitles(html_content) =
               [k \in 1..Len(hits) |-> escape_html(ListedTitle(hits[k]))]
     /\ pc = "update_index" =>
          /\ Len(Items(latex_content)) = Len(hits)
          /\ Occurrences(latex_content, "\\item ") = Len(hits)
          /\ \A k \in 1..Len(hits) :
               Contains(Items(latex_content)[k], escape_latex(ListedTitle(hits[k])))

\* the fetch of the spec's example, the thesis between the two articles: both
\* renderings list the arXiv article and then the DOI article
C8_Witness ==
  /\ pc = "update_index"
  /\ HitsOf(data) = <<ArxivHit, ThesisHit, DoiHit>>
  /\ CardTitles(html_content) = <<"A", "B &amp; C">>
  /\ Len(Items(latex_content)) = 2

\* C9 as stated: the year of every fetched record is a string of exactly 4
\* characters or the empty string.
C9_YearFourCharsOrEmpty ==
  Fetched =>
    \A k \in 1..Len(papers) :
      /\ papers[k].year.t = "str"
      /\ Len(papers[k].year.v) \in {0, 4}

\* the explicit year of a hit: that of its first publication_info entry
ExplicitYear(hit) ==
  LET pubs == Get(Get(hit, "metadata", <<>>), "publication_info", <<>>)
  IN IF pubs = <<>> THEN JNull ELSE Get(pubs[1], "year", JNull)

EarliestDate(hit) == Get(Get(hit, "metadata", <<>>), "earliest_date", "")

\* C9 (amended): the year of a fetched record is the explicit year of the first
\* publication_info entry, as it is, when that is present and truthy; otherwise
\* it is a string, the first 4 characters of earliest_date (all of it when it
\* is shorter, empty when it is missing): of exactly 4 characters when
\* earliest_date has at least 4.
C9_YearAsFetched ==
  Fetched =>
    \A k \in 1..Len(papers) :
      LET hit == NonThesisHits[k]
          year == papers[k].year
      IN IF Truthy(ExplicitYear(hit))
         THEN year = ExplicitYear(hit)
         ELSE /\ year.t = "str"
              /\ IsPrefix(year.v, EarliestDate(hit))
              /\ Len(year.v) = Min(4, Len(EarliestDate(hit)))

\* a record fetched from a hit with no explicit year and a 3-character
\* earliest_date
C9_Witness ==
  /\ Fetched
  /\ Len(papers) = 1
  /\ ~Truthy(ExplicitYear(NonThesisHits[1]))
  /\ EarliestDate(NonThesisHits[1]) = "202"
  /\ papers[1].year = JStr("202")

\* C10: for every hit that is not a thesis fetch_papers does not fail, and
\* lists it as "Untitled" when its titles list is missing or empty and under
\* the title of the first entry otherwise.
C10_MissingOrEmptyTitlesUntitled ==
  (pc # "fetch" /\ error # "URLError") =>
    /\ error # "IndexError"
    /\ Len(papers) = Len(NonThesisHits)
    /\ \A k \in 1..Len(papers) : papers[k].title = ListedTitle(NonThesisHits[k])

====
